---- MODULE Spec2Model ----
(***************************************************************************)
(* Model of the real-time frame pipeline of free-lossless:                 *)
(*   main.py    FrameGenerationApp (capture / processing / post-processing *)
(*              worker threads, the presentation loop of run(), sessions)  *)
(*   engine.py  RIFEEngine.interpolate                                     *)
(*   filters.py NvidiaAIUpscaler.upscale                                   *)
(* Threads interleave at the granularity of their accesses to shared       *)
(* state (queue operations, reads and writes of attributes of the app).    *)
(***************************************************************************)
EXTENDS Integers, Sequences, FiniteSets, TLC

(***************************************************************************)
(* Bounds of the model.                                                    *)
(***************************************************************************)
\* A run is bounded by the number of events of its environment: frames that
\* pass the duplicate check, frame intervals that elapse, changes of the
\* target window's rectangle, presses of F9, and what ends a session (F11,
\* closing the overlay, the loss of the target window).  The bound depends
\* on the kind of run (see Profiles).
\* one session with plain resampling
PipeEvents == 4
\* one session with the AI upscaler
AIEvents == 2
\* one session with plain resampling and sharpening
SharpEvents == 2
\* one session with the FSR-style filters
FSREvents == 2
\* one session on a window that may be taller than it is wide
TallEvents == 3
\* several sessions
StaleEvents == 3
\* one session, observed from a state with a nearly full display queue
SteadyEvents == 2
\* one session under pressure on the display queue (frames and pacing only)
PressureEvents == 3
\* captures of the capture worker alone, duplicates and failures included
DedupEvents == 4
\* frames and window resizes before the source goes static (time is free)
DrainEvents == 4
\* frames before the source goes static, from a nearly full display queue
DrainSteadyEvents == 1
\* several sessions that differ in the algorithm selected (stops only)
ReselectEvents == 1
\* calls of run() that reach self.running = True
MaxSessions == 2
\* the largest flow magnitude drawn, in pixels
MaxMag == 31
\* the columns of the reduced-resolution images drawn (they have one row)
FlowCols == 6
\* the largest flow component the estimator returns, in reduced pixels
MaxFlow == 2

(***************************************************************************)
(* Program constants.                                                      *)
(***************************************************************************)
CaptureQueueMax == 3
ProcessQueueMax == 3
DisplayQueueMax == 20
\* stride of the static check of RIFEEngine.interpolate
StaticStride == 100
\* stride of the second slice of the duplicate check of capture_worker
DedupStride == 60
\* the buffer check of the presentation loop
MinBuffered == 2
\* scale of NvidiaAIUpscaler's model (FSRCNN x2)
AIScale == 2
\* the fullscreen flag of scale_factor (written -1 in the source)
Fullscreen == 0 - 1
\* GetSystemMetrics(SM_CXSCREEN), GetSystemMetrics(SM_CYSCREEN)
Screen == <<1920, 1080>>

Sessions == 1..MaxSessions

(***************************************************************************)
(* Frames.  A frame is an h x w image; its pixels are `bg' everywhere      *)
(* except at the positions of `spots', where they are 255 - bg.  id, kind, *)
(* sess and pseq are history tags: the capture number, whether the frame   *)
(* was captured or synthesised, the session that was current when (the     *)
(* oldest input of) the frame was captured, and the position of the frame  *)
(* in the sequence of process-queue puts.  fx records the filters of the   *)
(* post-processing stage the frame has been through (the inference of the  *)
(* AI model, the resampling algorithm, the sharpening filter and its       *)
(* amount in hundredths): they leave a uniform image uniform, and change   *)
(* the pixels of any other image.                                          *)
(***************************************************************************)
NoFx == [ai |-> FALSE, resample |-> "none", sharpen |-> "none", amount |-> 0]

None == [id |-> 0, kind |-> "none", sess |-> 0, w |-> 0, h |-> 0,
         bg |-> 0, spots |-> {}, pseq |-> 0, fx |-> NoFx]

MkFrame(i, s, w, h, bg, spots) ==
    [id |-> i, kind |-> "real", sess |-> s, w |-> w, h |-> h,
     bg |-> bg, spots |-> spots, pseq |-> 0, fx |-> NoFx]

Pixel(f, r, c) == IF <<r, c>> \in f.spots THEN 255 - f.bg ELSE f.bg

\* the indices start, start+step, ... below n  (a[start::step] of numpy)
Strided(start, step, n) ==
    IF n <= start THEN {}
    ELSE {start + k * step : k \in 0..((n - 1 - start) \div step)}

\* the end of a slice [start:stop] of an axis of length n; stop < 0: no stop
SliceEnd(n, stop) == IF stop < 0 \/ n < stop THEN n ELSE stop

\* np.array_equal(a[r0:r1:rs, c0:c1:cs], b[r0:r1:rs, c0:c1:cs]):
\* same sliced shape and same elements
SliceEqual(a, b, r0, r1, rs, c0, c1, cs) ==
    LET rowsA == Strided(r0, rs, SliceEnd(a.h, r1))
        rowsB == Strided(r0, rs, SliceEnd(b.h, r1))
        colsA == Strided(c0, cs, SliceEnd(a.w, c1))
        colsB == Strided(c0, cs, SliceEnd(b.w, c1))
    IN  /\ rowsA = rowsB
        /\ colsA = colsB
        /\ \A r \in rowsA : \A c \in colsA : Pixel(a, r, c) = Pixel(b, r, c)

\* a comparison of the number of channels only (shape[2]): every frame of
\* the pipeline has three
SameChannels(a, b) == TRUE

SameShape(a, b) == a.h = b.h /\ a.w = b.w

Min(a, b) == IF a < b THEN a ELSE b

\* cv2.resize(frame, dim): the frames of the pipeline are uniform (no
\* spots), and a uniform image resamples to the uniform image of the new size
Resize(f, dim) == [f EXCEPT !.w = dim[1], !.h = dim[2], !.spots = {}]

(***************************************************************************)
(* queue.Queue(maxsize): FIFO; put blocks while full, get blocks while     *)
(* empty, get_nowait raises Empty on an empty queue (callers swallow it).  *)
(***************************************************************************)
\* put on a queue built without maxsize: it never waits
PutUnbounded(q, maxsize) == TRUE
\* an eviction that takes the newest element instead of the oldest
DropNewest(q) == IF Len(q) = 0 THEN q ELSE SubSeq(q, 1, Len(q) - 1)

QFull(q, maxsize) == Len(q) >= maxsize
QEmpty(q) == Len(q) = 0
CanPut(q, maxsize) == Len(q) < maxsize
CanGet(q) == Len(q) > 0
QPut(q, x) == Append(q, x)
QGet(q) == Tail(q)
GetNowait(q) == IF Len(q) = 0 THEN q ELSE Tail(q)

(***************************************************************************)
(* RIFEEngine                                                              *)
(***************************************************************************)
\* RIFEEngine.__init__: no cached maps, standard precision
NewEngine == [last_h |-> 0, last_w |-> 0, high_precision |-> FALSE]

\* RIFEEngine.set_high_precision
SetHighPrecision(e, enabled) == [e EXCEPT !.high_precision = enabled]

\* a comparison of the whole frames: np.array_equal(frame1, frame2)
DensePair(f1, f2) == SameShape(f1, f2) /\ f1.bg = f2.bg /\ f1.spots = f2.spots

\* the static check: np.array_equal(frame1[::100, ::100], frame2[::100, ::100])
StaticPair(f1, f2) ==
    SliceEqual(f1, f2, 0, 0 - 1, StaticStride, 0, 0 - 1, StaticStride)

\* steps 2-9 of interpolate, for a pair that is not static: a new frame of
\* the shape of the inputs.  Its pixels are those of the zero-flow result
\* (combined = addWeighted(frame1, 0.5, frame2, 0.5)) of uniform frames;
\* nothing reads the pixels of the frame synthesised from other inputs.
Blended(f1, f2) ==
    [id |-> f2.id, kind |-> "inter", sess |-> Min(f1.sess, f2.sess),
     w |-> f1.w, h |-> f1.h,
     bg |-> IF f1.bg = f2.bg THEN f1.bg ELSE (f1.bg + f2.bg + 1) \div 2,
     spots |-> {}, pseq |-> 0, fx |-> NoFx]

\* RIFEEngine.interpolate(frame1, frame2): the frame returned, the engine
\* afterwards, and the path taken
Interpolate(e, f1, f2) ==
    IF ~SameShape(f1, f2)
    THEN [frame |-> f2, engine |-> e, path |-> "mismatch"]
    ELSE IF StaticPair(f1, f2)
    THEN [frame |-> f1, engine |-> e, path |-> "static"]
    ELSE [frame |-> Blended(f1, f2),
          engine |-> [e EXCEPT !.last_h = f1.h, !.last_w = f1.w],
          path |-> "blend"]

(***************************************************************************)
(* The adaptive blend of interpolate (steps 8 and 9), for one pixel of one *)
(* channel.  The flow is the result of the optical-flow estimator: the     *)
(* magnitude at the pixel and the largest magnitude among the other        *)
(* pixels of the frame are inputs, in units of 1/MagPerPixel pixel.        *)
(* blend_mask is the fraction BlendMask / MaskDen and the weight           *)
(* mask_3c * 0.4 the fraction MaskWeight / WeightDen.                      *)
(***************************************************************************)
MagPerPixel == 3
FullMag == 30
CrossFadeTenths == 4
MaskThresholdPct == 5
MaskDen == FullMag * MagPerPixel
WeightDen == 10 * MaskDen

Max(a, b) == IF a < b THEN b ELSE a

\* mag / 30.0 without the clip
UnclippedMask(u) == u

\* blend_mask = np.clip(mag / 30.0, 0, 1.0)
BlendMask(u) == IF u > MaskDen THEN MaskDen ELSE IF u < 0 THEN 0 ELSE u

\* if np.max(blend_mask) > 0.05:
UseCrossFade(umax) == 100 * BlendMask(umax) > MaskThresholdPct * MaskDen

\* mask_3c * 0.4
MaskWeight(u) == CrossFadeTenths * BlendMask(u)

\* the weight of cross_fade in the frame returned, for a pixel of
\* magnitude u in a frame of largest magnitude umax
CrossFadeWeight(u, umax) == IF UseCrossFade(umax) THEN MaskWeight(u) ELSE 0

\* cv2.addWeighted(a, 0.5, b, 0.5, 0) of two 8-bit values: the mean,
\* rounded to the nearest integer, a half to the even one
AddWeighted(a, b) ==
    LET k == (a + b) \div 2
    IN  IF (a + b) % 2 = 0 \/ k % 2 = 0 THEN k ELSE k + 1

\* combined * 1.0 + cross_fade * (mask_3c * 0.4): the complement forgotten
AdditiveValue(combined, cross_fade, u) ==
    combined * WeightDen + cross_fade * MaskWeight(u)

\* combined * (1.0 - mask_3c * 0.4) + cross_fade * (mask_3c * 0.4),
\* times WeightDen
FinalValue(combined, cross_fade, u) ==
    combined * (WeightDen - MaskWeight(u)) + cross_fade * MaskWeight(u)

\* final.astype(np.uint8) of a value times WeightDen: the fraction is
\* dropped and the integer taken modulo 256
AsUint8(v) == (v \div WeightDen) % 256

\* a pixel before the blend, and the pixel with the results of the blend
NoPixel == [frame1 |-> 0, frame2 |-> 0, inter1 |-> 0, inter2 |-> 0,
            mag |-> 0 - 1, others |-> 0, combined |-> 0 - 1,
            cross_fade |-> 0 - 1, weight |-> 0 - 1, value |-> 0 - 1,
            final |-> 0 - 1]
BlendOf(p) ==
    LET combined == AddWeighted(p.inter1, p.inter2)
        cross_fade == AddWeighted(p.frame1, p.frame2)
        umax == Max(p.mag, p.others)
        value == FinalValue(combined, cross_fade, p.mag)
    IN  IF UseCrossFade(umax)
        THEN [p EXCEPT !.combined = combined, !.cross_fade = cross_fade,
                       !.weight = CrossFadeWeight(p.mag, umax),
                       !.value = value, !.final = AsUint8(value)]
        ELSE [p EXCEPT !.combined = combined, !.cross_fade = cross_fade,
                       !.weight = CrossFadeWeight(p.mag, umax),
                       !.value = combined * WeightDen, !.final = combined]

(***************************************************************************)
(* The flow field of interpolate between the estimator and the warps       *)
(* (steps 4 and 5), on reduced-resolution images of one row.  A field      *)
(* holds one component of the flow.  The Gaussian kernel of step 4,        *)
(* getGaussianKernel(3, 0.5) = (0.1065, 0.7870, 0.1065), is taken in       *)
(* hundredths; the kernel of step 5, ksize 5 with sigma 0, is OpenCV's     *)
(* fixed (1, 4, 6, 4, 1) / 16.  A stabilised flow value is a numerator     *)
(* over FlowDen, a mask value a numerator over ProtDen.                    *)
(***************************************************************************)
\* small1.shape: rows, columns
SmallShape == <<1, FlowCols>>
SmallGrid == (0..(SmallShape[1] - 1)) \X (0..(SmallShape[2] - 1))
Near == {0 - 1, 0, 1}

\* cv2.BORDER_REPLICATE, the border of medianBlur
Replicate(p, len) == IF p < 0 THEN 0 ELSE IF p >= len THEN len - 1 ELSE p

\* cv2.BORDER_REFLECT_101, the default border of GaussianBlur
RECURSIVE Reflect101(_, _)
Reflect101(p, len) ==
    IF len = 1 THEN 0
    ELSE IF p < 0 THEN Reflect101(0 - p, len)
    ELSE IF p >= len THEN Reflect101(2 * len - 2 - p, len)
    ELSE p

\* cv2.medianBlur(flow, 3) at a position: the fifth of the nine values of
\* the window
MedianBlur(f) ==
    [p \in SmallGrid |->
        LET v(o) == f[<<Replicate(p[1] + o[1], SmallShape[1]),
                        Replicate(p[2] + o[2], SmallShape[2])>>]
            win == Near \X Near
        IN  CHOOSE m \in {v(o) : o \in win} :
                /\ Cardinality({o \in win : v(o) < m}) <= 4
                /\ Cardinality({o \in win : v(o) <= m}) >= 5]

GaussSide == 11
GaussCentre == 78
FlowDen == (GaussSide + GaussCentre + GaussSide) * (GaussSide + GaussCentre + GaussSide)
\* cv2.GaussianBlur(flow, (3, 3), 0.5): the row pass, then the column pass
GaussRow3(f, r, c) ==
    GaussSide * f[<<r, Reflect101(c - 1, SmallShape[2])>>] + GaussCentre * f[<<r, c>>]
    + GaussSide * f[<<r, Reflect101(c + 1, SmallShape[2])>>]
GaussianBlur3(f) ==
    [p \in SmallGrid |->
        GaussSide * GaussRow3(f, Reflect101(p[1] - 1, SmallShape[1]), p[2])
        + GaussCentre * GaussRow3(f, p[1], p[2])
        + GaussSide * GaussRow3(f, Reflect101(p[1] + 1, SmallShape[1]), p[2])]

StaticThreshold == 8
EdgeMax == 255
\* cv2.threshold(diff, 8, 1.0, cv2.THRESH_BINARY_INV)
StaticMask(d) == IF d > StaticThreshold THEN 0 ELSE 1
\* the edge mask without the division by 255 and the clip
EdgeMaskRaw(e) == e
\* np.clip(edges.astype(np.float32) / 255.0, 0, 1), on the values 0 and 255
\* of cv2.Canny
EdgeMask(e) ==
    LET q == e \div EdgeMax IN IF q < 0 THEN 0 ELSE IF q > 1 THEN 1 ELSE q

\* cv2.dilate(mask, np.ones((3, 3))): the largest value of the window, the
\* positions outside the image left out
Dilate(m) ==
    [p \in SmallGrid |->
        LET win == {o \in Near \X Near : <<p[1] + o[1], p[2] + o[2]>> \in SmallGrid}
            vals == {m[<<p[1] + o[1], p[2] + o[2]>>] : o \in win}
        IN  CHOOSE x \in vals : \A y \in vals : y <= x]

BlurTaps == <<1, 4, 6, 4, 1>>
BlurDen == 16
ProtDen == BlurDen * BlurDen
\* cv2.GaussianBlur(mask, (5, 5), 0): the row pass, then the column pass
GaussRow5(m, r, c) ==
    BlurTaps[1] * m[<<r, Reflect101(c - 2, SmallShape[2])>>]
    + BlurTaps[2] * m[<<r, Reflect101(c - 1, SmallShape[2])>>]
    + BlurTaps[3] * m[<<r, c>>]
    + BlurTaps[4] * m[<<r, Reflect101(c + 1, SmallShape[2])>>]
    + BlurTaps[5] * m[<<r, Reflect101(c + 2, SmallShape[2])>>]
GaussianBlur5(m) ==
    [p \in SmallGrid |->
        BlurTaps[1] * GaussRow5(m, Reflect101(p[1] - 2, SmallShape[1]), p[2])
        + BlurTaps[2] * GaussRow5(m, Reflect101(p[1] - 1, SmallShape[1]), p[2])
        + BlurTaps[3] * GaussRow5(m, p[1], p[2])
        + BlurTaps[4] * GaussRow5(m, Reflect101(p[1] + 1, SmallShape[1]), p[2])
        + BlurTaps[5] * GaussRow5(m, Reflect101(p[1] + 2, SmallShape[1]), p[2])]

\* step 5 of interpolate: protection_mask from diff = absdiff(small1, small2)
\* and edges = Canny(small1, 50, 150)
ProtectionMask(diff, edges) ==
    GaussianBlur5(Dilate([p \in SmallGrid |->
                             Max(StaticMask(diff[p]), EdgeMask(edges[p]))]))

\* flow[..., k] *= (1.0 - protection_mask): numerators over FlowDen * ProtDen
Dampen(flow, mask) == [p \in SmallGrid |-> flow[p] * (ProtDen - mask[p])]

\* the fields of one call of interpolate and its position: the estimate of
\* self.dis.calc, diff and edges, the flow after the median filter, after
\* the Gaussian filter and after the dampening, the protection mask
NoFlow == [pc |-> "none", est |-> <<>>, diff |-> <<>>, edges |-> <<>>,
           median |-> <<>>, flow |-> <<>>, mask |-> <<>>, damp |-> <<>>,
           hp |-> FALSE]

(***************************************************************************)
(* The environment: the target window, the selection dialog, the screen    *)
(* contents.                                                               *)
(***************************************************************************)
\* rectangles (left, top, right, bottom) the target window takes
WinRects == {<<0, 0, 640, 480>>, <<0, 0, 1024, 768>>}
\* with a window in portrait format
TallRects == {<<0, 0, 640, 480>>, <<0, 0, 600, 900>>}
\* pixel values of the (uniform) captured images
Colours == {0, 255}

RectW(r) == r[3] - r[1]
RectH(r) == r[4] - r[2]

\* the record GameSelectorUI._on_select builds
UIRecord == [hwnd |-> 1, title |-> "game", mode |-> "bitblt", fps |-> 60]
\* records that carry every key select_game reads with []
FullRecords ==
    {[hwnd |-> 1, title |-> "game", mode |-> "bitblt", fps |-> 60,
      scale |-> sc, algo |-> al, sharpness |-> sh, fg_enabled |-> fg] :
        sc \in {"1.0"}, al \in {"Bilinear", "AMD FSR", "NVIDIA AI"}, sh \in {0, 50},
        fg \in BOOLEAN}
SelectionRecords == {UIRecord} \cup FullRecords

\* the keys select_game reads with target_window[...]
RequiredKeys == {"mode", "fps", "scale", "algo", "sharpness", "hwnd", "title"}

\* dict.get(key, default)
DictGet(d, key, default) == IF key \in DOMAIN d THEN d[key] ELSE default

\* float(scale_val), in percent
ScalePercent(sc) == IF sc = "1.0" THEN 100 ELSE IF sc = "2.0" THEN 200 ELSE 150
\* int(x * scale_factor)
Scaled(x, pct) == (x * pct) \div 100

\* the internal resolution limit of select_game and of the window sync of run
MaxRes(tw) ==
    IF DictGet(tw, "performance_mode", FALSE) THEN <<1280, 720>> ELSE <<800, 600>>
InternalRes(rect, tw) ==
    LET max == MaxRes(tw)
    IN  IF RectW(rect) > max[1] THEN max ELSE <<RectW(rect), RectH(rect)>>

VARIABLES
    running,            \* self.running
    capture_queue, process_queue, display_queue,
    frame_count,        \* self.frame_count
    last_rect,          \* self.last_rect
    target_window,      \* self.target_window
    scale_factor,       \* self.scale_factor, in percent (Fullscreen: -1)
    upscale_algo,       \* self.upscale_algo
    sharpness,          \* self.sharpness, in hundredths
    internal_res,       \* self.internal_res
    display_dim,        \* self.display_dim
    fsr_mode, ai_mode,  \* self.fsr_mode, self.ai_mode
    ai_upscaler,        \* self.ai_upscaler: "None", or its session loaded or not
    fg_enabled,         \* self.fg_enabled
    engine,             \* self.engine
    cap, proc, post,    \* the worker threads of each session: position, locals
    pcMain,             \* position of the main thread
    mainFrame,          \* the local `frame' of run
    t_rect,             \* the local `t_rect' of run
    session,            \* sessions started so far
    winRect,            \* the rectangle of the target window
    due,                \* a frame interval has elapsed since last_display_time
    events,             \* events of the environment so far
    limits,             \* the bounds of this run
    px,                 \* one pixel of one channel in the blend of interpolate
    fl,                 \* the flow field of one call of interpolate
    nextId, pseqCtr,    \* history: frames captured, process-queue puts
    lastShown           \* history: pseq of the frame last handed over in this session

queues == <<capture_queue, process_queue, display_queue>>
config == <<target_window, scale_factor, upscale_algo, sharpness, internal_res,
            display_dim, fsr_mode, ai_mode, ai_upscaler, fg_enabled>>
workers == <<cap, proc, post>>
mainVars == <<pcMain, mainFrame, t_rect, frame_count, last_rect, session>>
envVars == <<winRect, due, events, limits, px, fl>>
history == <<nextId, pseqCtr, lastShown>>
vars == <<running, queues, config, engine, workers, mainVars, envVars, history>>

\* the kinds of run: sessions, events and their kinds, what the dialog
\* offers (algorithms, sharpness, frame generation), the pixels that differ
\* from the background in the images captured
EventKinds == {"frame", "tick", "resize", "toggle", "stop"}
BaseProfile == [sessions |-> 1, events |-> 0, algos |-> {"Bilinear"},
                sharpness |-> {0}, fg |-> {TRUE}, spots |-> {{}},
                kinds |-> EventKinds, rects |-> WinRects]
PipeProfile == [BaseProfile EXCEPT !.events = PipeEvents]
AIProfile == [BaseProfile EXCEPT !.events = AIEvents, !.algos = {"NVIDIA AI"},
                                 !.sharpness = {0, 50}]
SharpProfile == [BaseProfile EXCEPT !.events = SharpEvents, !.sharpness = {50},
                                    !.fg = BOOLEAN]
FSRProfile == [BaseProfile EXCEPT !.events = FSREvents, !.algos = {"AMD FSR"},
                                  !.sharpness = {0, 50}]
TallProfile == [BaseProfile EXCEPT !.events = TallEvents, !.rects = TallRects,
                                   !.kinds = {"frame", "tick", "resize"}]
StaleProfile == [BaseProfile EXCEPT !.sessions = MaxSessions,
                                    !.events = StaleEvents,
                                    !.kinds = {"frame", "stop"}]
SteadyProfile == [BaseProfile EXCEPT !.events = SteadyEvents]
PressureProfile == [BaseProfile EXCEPT !.events = PressureEvents,
                                       !.kinds = {"frame", "tick"}]
DrainProfile == [BaseProfile EXCEPT !.events = DrainEvents,
                                    !.kinds = {"frame", "resize"}]
DrainSteadyProfile == [BaseProfile EXCEPT !.events = DrainSteadyEvents,
                                          !.kinds = {"frame"}]
ReselectProfile == [BaseProfile EXCEPT !.sessions = MaxSessions,
                                       !.events = ReselectEvents,
                                       !.algos = {"Bilinear", "AMD FSR", "NVIDIA AI"},
                                       !.kinds = {"stop"}]
Profiles == {PipeProfile, AIProfile, SharpProfile, StaleProfile, SteadyProfile,
             PressureProfile, DrainProfile, DrainSteadyProfile, ReselectProfile,
             FSRProfile, TallProfile}

\* the environment may still produce an event of this kind
Allowed(kind) == events < limits.events /\ kind \in limits.kinds

\* a thread that has not been started
CapIdle == [pc |-> "idle", last_frame |-> None, frame |-> None]
\* (taken and pushed are history: the frames the worker has taken from the
\* capture queue and those it has put on the process queue)
ProcIdle == [pc |-> "idle", last_frame |-> None, current_frame |-> None,
             inter_frame |-> None, taken |-> 0, pushed |-> 0]
PostIdle == [pc |-> "idle", frame |-> None, path |-> "none"]

\* FrameGenerationApp.__init__, before the first call of run
Constructed ==
    /\ running = FALSE
    /\ capture_queue = <<>> /\ process_queue = <<>> /\ display_queue = <<>>
    /\ frame_count = 0
    /\ last_rect = <<>>
    /\ target_window = [hwnd |-> 0]
    /\ scale_factor = 100
    /\ upscale_algo = "INTER_LINEAR"
    /\ sharpness = 30
    /\ internal_res = <<800, 600>>
    /\ display_dim = <<1280, 720>>
    /\ fsr_mode = FALSE /\ ai_mode = FALSE
    /\ ai_upscaler = "None"
    /\ fg_enabled = TRUE
    /\ engine = NewEngine
    /\ cap = [s \in Sessions |-> CapIdle]
    /\ proc = [s \in Sessions |-> ProcIdle]
    /\ post = [s \in Sessions |-> PostIdle]
    /\ pcMain = "select"
    /\ mainFrame = None
    /\ t_rect = <<>>
    /\ session = 0
    /\ winRect = <<0, 0, 640, 480>>
    /\ due = FALSE
    /\ events = 0
    /\ nextId = 1 /\ pseqCtr = 0
    /\ lastShown = 0


\* the process is alive: the main script has not ended (the workers are
\* daemon threads and end with it)
Alive == pcMain # "exit"

(***************************************************************************)
(* capture_worker                                                          *)
(***************************************************************************)
\* the duplicate check
\* the duplicate test without its second comparison (the grid [::60, ::60])
WindowDuplicate(frame, last) ==
    /\ last # None
    /\ SliceEqual(frame, last, 10, 30, 2, 10, 30, 2)

IsDuplicate(frame, last) ==
    /\ last # None
    /\ SliceEqual(frame, last, 10, 30, 2, 10, 30, 2)
    /\ SliceEqual(frame, last, 0, 0 - 1, DedupStride, 0, 0 - 1, DedupStride)

\* one pass of the loop up to the eviction: the test of self.running, the
\* lookup of the window, the capture, the duplicate check and
\* self.capture_queue.full().  A pass that sleeps changes nothing; a pass
\* that captures nothing or a duplicate assigns the local `frame' only.
CapIter(s) ==
    /\ Alive /\ cap[s].pc = "loop"
    /\ \/ /\ ~running
          /\ cap' = [cap EXCEPT ![s].pc = "done"]
          /\ UNCHANGED <<running, nextId, events>>
       \/ \* get_window_rect raises: "Lost window, stopping..."
          /\ running
          /\ Allowed("stop")
          /\ running' = FALSE
          /\ cap' = [cap EXCEPT ![s].pc = "done"]
          /\ events' = events + 1
          /\ UNCHANGED nextId
       \/ \* capture_frame returns None
          /\ running
          /\ Allowed("dup")
          /\ cap' = [cap EXCEPT ![s].frame = None]
          /\ events' = events + 1
          /\ UNCHANGED <<running, nextId>>
       \/ \* a frame that is a duplicate of last_frame
          /\ running
          /\ Allowed("dup")
          /\ \E bg \in Colours, spots \in limits.spots :
               LET frame == MkFrame(nextId, session, RectW(winRect),
                                    RectH(winRect), bg, spots)
               IN  /\ IsDuplicate(frame, cap[s].last_frame)
                   /\ cap' = [cap EXCEPT ![s].frame = frame]
          /\ nextId' = nextId + 1
          /\ events' = events + 1
          /\ UNCHANGED running
       \/ \* a frame that is no duplicate of last_frame
          /\ running
          /\ Allowed("frame")
          /\ \E bg \in Colours, spots \in limits.spots :
               LET frame == MkFrame(nextId, session, RectW(winRect),
                                    RectH(winRect), bg, spots)
               IN  /\ ~IsDuplicate(frame, cap[s].last_frame)
                   /\ cap' = [cap EXCEPT
                                ![s].pc = IF QFull(capture_queue, CaptureQueueMax)
                                          THEN "evict" ELSE "put",
                                ![s].frame = frame]
          /\ nextId' = nextId + 1
          /\ events' = events + 1
          /\ UNCHANGED running
    /\ UNCHANGED <<queues, config, engine, proc, post, mainVars, winRect, due,
                   limits, px, fl, pseqCtr, lastShown>>

\* try: self.capture_queue.get_nowait()
CapEvict(s) ==
    /\ Alive /\ cap[s].pc = "evict"
    /\ capture_queue' = GetNowait(capture_queue)
    /\ cap' = [cap EXCEPT ![s].pc = "put"]
    /\ UNCHANGED <<running, process_queue, display_queue, config, engine,
                   proc, post, mainVars, envVars, history>>

\* self.capture_queue.put(frame); last_frame = frame
CapPut(s) ==
    /\ Alive /\ cap[s].pc = "put"
    /\ CanPut(capture_queue, CaptureQueueMax)
    /\ capture_queue' = QPut(capture_queue, cap[s].frame)
    /\ cap' = [cap EXCEPT ![s].pc = "loop", ![s].last_frame = cap[s].frame]
    /\ UNCHANGED <<running, process_queue, display_queue, config, engine,
                   proc, post, mainVars, envVars, history>>

(***************************************************************************)
(* processing_worker                                                       *)
(***************************************************************************)
\* while self.running: if not self.capture_queue.empty(): ... else: sleep
ProcPoll(s) ==
    /\ Alive /\ proc[s].pc = "loop"
    /\ proc' = [proc EXCEPT ![s].pc =
                  IF ~running THEN "done"
                  ELSE IF ~QEmpty(capture_queue) THEN "get" ELSE "loop"]
    /\ UNCHANGED <<running, queues, config, engine, cap, post, mainVars,
                   envVars, history>>

\* if w > self.internal_res[0] or h > self.internal_res[1]:
TooLarge(f, res) == f.w > res[1] \/ f.h > res[2]

\* the test without the flag: if last_frame is not None:
InterpolatedAlways(w, cur, e, fg) ==
    IF w.last_frame # None
    THEN LET r == Interpolate(e, w.last_frame, cur)
         IN  [worker |-> [w EXCEPT !.pc = "put_inter", !.current_frame = cur,
                                   !.inter_frame = r.frame],
              engine |-> r.engine]
    ELSE [worker |-> [w EXCEPT !.pc = "put_cur", !.current_frame = cur],
          engine |-> e]

\* if self.fg_enabled and last_frame is not None:
\*     inter_frame = self.engine.interpolate(last_frame, current_frame)
\* the worker with its current frame `cur', then at a put
Interpolated(w, cur, e, fg) ==
    IF fg /\ w.last_frame # None
    THEN LET r == Interpolate(e, w.last_frame, cur)
         IN  [worker |-> [w EXCEPT !.pc = "put_inter", !.current_frame = cur,
                                   !.inter_frame = r.frame],
              engine |-> r.engine]
    ELSE [worker |-> [w EXCEPT !.pc = "put_cur", !.current_frame = cur],
          engine |-> e]

\* current_frame = self.capture_queue.get(), the comparison with
\* self.internal_res and, for a frame that needs no resize, the interpolation
ProcGet(s) ==
    /\ Alive /\ proc[s].pc = "get"
    /\ CanGet(capture_queue)
    /\ capture_queue' = QGet(capture_queue)
    /\ LET cur == Head(capture_queue)
           w == [proc[s] EXCEPT !.taken = @ + 1]
       IN  IF TooLarge(cur, internal_res)
           THEN /\ proc' = [proc EXCEPT ![s] = [w EXCEPT !.pc = "resize",
                                                         !.current_frame = cur]]
                /\ UNCHANGED engine
           ELSE LET r == Interpolated(w, cur, engine, fg_enabled)
                IN  /\ proc' = [proc EXCEPT ![s] = r.worker]
                    /\ engine' = r.engine
    /\ UNCHANGED <<running, process_queue, display_queue, config, cap, post,
                   mainVars, envVars, history>>

\* current_frame = cv2.resize(current_frame, self.internal_res, ...):
\* self.internal_res is read again; then the interpolation
ProcResize(s) ==
    /\ Alive /\ proc[s].pc = "resize"
    /\ LET r == Interpolated(proc[s], Resize(proc[s].current_frame, internal_res),
                             engine, fg_enabled)
       IN  /\ proc' = [proc EXCEPT ![s] = r.worker]
           /\ engine' = r.engine
    /\ UNCHANGED <<running, queues, config, cap, post, mainVars, envVars, history>>

\* self.process_queue.put(inter_frame)
ProcPutInter(s) ==
    /\ Alive /\ proc[s].pc = "put_inter"
    /\ CanPut(process_queue, ProcessQueueMax)
    /\ process_queue' = QPut(process_queue,
                             [proc[s].inter_frame EXCEPT !.pseq = pseqCtr + 1])
    /\ pseqCtr' = pseqCtr + 1
    /\ proc' = [proc EXCEPT ![s].pc = "put_cur", ![s].pushed = @ + 1]
    /\ UNCHANGED <<running, capture_queue, display_queue, config, engine, cap,
                   post, mainVars, envVars, nextId, lastShown>>

\* self.process_queue.put(current_frame); last_frame = current_frame
ProcPutCur(s) ==
    /\ Alive /\ proc[s].pc = "put_cur"
    /\ CanPut(process_queue, ProcessQueueMax)
    /\ process_queue' = QPut(process_queue,
                             [proc[s].current_frame EXCEPT !.pseq = pseqCtr + 1])
    /\ pseqCtr' = pseqCtr + 1
    /\ proc' = [proc EXCEPT ![s].pc = "loop",
                            ![s].last_frame = proc[s].current_frame,
                            ![s].pushed = @ + 1]
    /\ UNCHANGED <<running, capture_queue, display_queue, config, engine, cap,
                   post, mainVars, envVars, nextId, lastShown>>

(***************************************************************************)
(* post_processing_worker.  The frames of the pipeline are uniform, and    *)
(* the unsharp mask and apply_cas leave a uniform image as it is.          *)
(***************************************************************************)
FitsDisplay(f, dim) == f.w = dim[1] /\ f.h = dim[2]

\* while self.running: if not self.process_queue.empty(): ... else: sleep
PostPoll(s) ==
    /\ Alive /\ post[s].pc = "loop"
    /\ post' = [post EXCEPT ![s].pc =
                  IF ~running THEN "done"
                  ELSE IF ~QEmpty(process_queue) THEN "get" ELSE "loop"]
    /\ UNCHANGED <<running, queues, config, engine, cap, proc, mainVars,
                   envVars, history>>

\* cv2.resize(frame, dim, interpolation=algo)
ResizeWith(f, dim, algo) == [Resize(f, dim) EXCEPT !.fx.resample = algo]

\* if self.sharpness > 0: blurred = GaussianBlur(frame, (0, 0), 3);
\* frame = addWeighted(frame, 1.0 + sharpness, blurred, -sharpness, 0)
Unsharp(f, sh) ==
    IF sh > 0 THEN [f EXCEPT !.fx.sharpen = "usm", !.fx.amount = sh] ELSE f

\* apply_cas without its early return
ApplyCasAlways(f, sh) == [f EXCEPT !.fx.sharpen = "cas", !.fx.amount = sh]

\* AMDFilters.apply_cas(img, sharpness)
ApplyCas(f, sh) ==
    IF sh <= 0 THEN f ELSE [f EXCEPT !.fx.sharpen = "cas", !.fx.amount = sh]

\* AMDFilters.apply_easu(img, target_dim): Lanczos, then apply_cas(.., 0.3)
ApplyEasu(f, dim) ==
    IF FitsDisplay(f, dim) THEN f
    ELSE ApplyCas(ResizeWith(f, dim, "INTER_LANCZOS4"), 30)

\* the model of the upscaler doubles the frame
Upscaled(f) ==
    [Resize(f, <<AIScale * f.w, AIScale * f.h>>) EXCEPT !.fx.ai = TRUE]

\* the branch `path' on a frame that has the size of the display
Fitting(f, path) ==
    IF path = "plain" THEN Unsharp(f, sharpness)
    ELSE IF path = "fsr" THEN ApplyCas(f, sharpness)
    ELSE f

\* the branch `path' on a frame that has not: the resize to
\* self.display_dim
Fitted(f, path) ==
    IF path = "plain"
    THEN Unsharp(ResizeWith(f, display_dim, upscale_algo), sharpness)
    ELSE IF path = "fsr" THEN ApplyEasu(f, display_dim)
    ELSE ResizeWith(f, display_dim, "INTER_LINEAR")

\* the frame is ready for the push: if self.display_queue.full():
AtPush(w, f, path) ==
    [w EXCEPT !.pc = IF QFull(display_queue, DisplayQueueMax) THEN "evict" ELSE "put",
              !.frame = f, !.path = path]

\* the comparison of the frame with self.display_dim; a frame that fits
\* goes through the rest of its branch
Compared(w, f, path) ==
    IF FitsDisplay(f, display_dim) THEN AtPush(w, Fitting(f, path), path)
    ELSE [w EXCEPT !.pc = "resize", !.frame = f, !.path = path]

\* frame = self.process_queue.get(), the choice of the path,
\* NvidiaAIUpscaler.upscale on the AI path, the comparison of the frame with
\* self.display_dim
PostGet(s) ==
    LET f == Head(process_queue)
    IN  /\ Alive /\ post[s].pc = "get"
        /\ CanGet(process_queue)
        /\ process_queue' = QGet(process_queue)
        /\ \/ \* upscale: self.session is None: return img
              /\ ai_mode /\ ai_upscaler = "nosession"
              /\ post' = [post EXCEPT ![s] = Compared(post[s], f, "ai_bypass")]
           \/ \* upscale: the model runs and doubles the frame
              /\ ai_mode /\ ai_upscaler = "loaded"
              /\ post' = [post EXCEPT ![s] =
                            Compared(post[s], Upscaled(f), "ai")]
           \/ \* upscale: self.session.run raises; nothing catches it
              /\ ai_mode /\ ai_upscaler = "loaded"
              /\ post' = [post EXCEPT ![s].pc = "dead", ![s].frame = f,
                                      ![s].path = "ai"]
           \/ /\ ~(ai_mode /\ ai_upscaler # "None") /\ fsr_mode
              /\ post' = [post EXCEPT ![s] = Compared(post[s], f, "fsr")]
           \/ /\ ~(ai_mode /\ ai_upscaler # "None") /\ ~fsr_mode
              /\ post' = [post EXCEPT ![s] = Compared(post[s], f, "plain")]
        /\ UNCHANGED <<running, capture_queue, display_queue, config, engine,
                       cap, proc, mainVars, envVars, history>>

\* frame = cv2.resize(frame, self.display_dim, ...) / apply_easu(frame,
\* self.display_dim): self.display_dim is read again; on the plain path the
\* sharpening follows
PostResize(s) ==
    /\ Alive /\ post[s].pc = "resize"
    /\ post' = [post EXCEPT ![s] =
                  AtPush(post[s], Fitted(post[s].frame, post[s].path),
                         post[s].path)]
    /\ UNCHANGED <<running, queues, config, engine, cap, proc, mainVars,
                   envVars, history>>

\* try: self.display_queue.get_nowait()
PostEvict(s) ==
    /\ Alive /\ post[s].pc = "evict"
    /\ display_queue' = GetNowait(display_queue)
    /\ post' = [post EXCEPT ![s].pc = "put"]
    /\ UNCHANGED <<running, capture_queue, process_queue, config, engine, cap,
                   proc, mainVars, envVars, history>>

\* self.display_queue.put(frame)
PostPut(s) ==
    /\ Alive /\ post[s].pc = "put"
    /\ CanPut(display_queue, DisplayQueueMax)
    /\ display_queue' = QPut(display_queue, post[s].frame)
    /\ post' = [post EXCEPT ![s].pc = "loop"]
    /\ UNCHANGED <<running, capture_queue, process_queue, config, engine, cap,
                   proc, mainVars, envVars, history>>

(***************************************************************************)
(* The main thread: the script's loop over run(), select_game, run         *)
(***************************************************************************)
FSRAlgos == {"AMD FSR"}
AIAlgos == {"NVIDIA AI"}

\* the chain of tests on algo_val
IsPlain(algo) == algo \in {"Bilinear", "Bicubic", "Lanczos"}
AlgoOf(algo, old) ==
    IF algo = "Bilinear" THEN "INTER_LINEAR"
    ELSE IF algo = "Bicubic" THEN "INTER_CUBIC"
    ELSE IF algo = "Lanczos" THEN "INTER_LANCZOS4"
    ELSE old
SetsFSR(algo) == ~IsPlain(algo) /\ algo \in FSRAlgos
SetsAI(algo) == ~IsPlain(algo) /\ algo \notin FSRAlgos /\ algo \in AIAlgos

\* self.display_dim of select_game and of the window sync
DisplayDim(rect, sf) ==
    <<Scaled(RectW(rect), sf), Scaled(RectH(rect), sf)>>

\* app.run() up to self.running = True: the dialog returns nothing (run
\* returns False and the script ends), or a record; select_game raises
\* KeyError on a record that lacks a key it reads (the script ends), or
\* configures the session
Select ==
    /\ pcMain = "select"
    /\ \/ /\ pcMain' = "exit"
          /\ UNCHANGED <<running, config, engine, session, last_rect, lastShown>>
       \/ /\ session < limits.sessions
          /\ \E r \in SelectionRecords :
               /\ "algo" \in DOMAIN r => r.algo \in limits.algos
               /\ "sharpness" \in DOMAIN r => r.sharpness \in limits.sharpness
               /\ "fg_enabled" \in DOMAIN r => r.fg_enabled \in limits.fg
               /\ IF ~(RequiredKeys \subseteq DOMAIN r)
                  THEN /\ pcMain' = "exit"
                       /\ target_window' = r
                       /\ UNCHANGED <<running, scale_factor, upscale_algo, sharpness,
                                      internal_res, display_dim, fsr_mode, ai_mode,
                                      ai_upscaler, fg_enabled, engine, session,
                                      last_rect, lastShown>>
                  ELSE /\ target_window' = r
                       /\ scale_factor' = IF r.scale = "Fullscreen" THEN Fullscreen
                                          ELSE ScalePercent(r.scale)
                       /\ upscale_algo' = AlgoOf(r.algo, upscale_algo)
                       /\ fsr_mode' = (fsr_mode \/ SetsFSR(r.algo))
                       /\ ai_mode' = (ai_mode \/ SetsAI(r.algo))
                       /\ IF SetsAI(r.algo)
                          THEN ai_upscaler' \in {"loaded", "nosession"}
                          ELSE UNCHANGED ai_upscaler
                       /\ fg_enabled' = DictGet(r, "fg_enabled", TRUE)
                       /\ sharpness' = r.sharpness * 2
                       /\ engine' = SetHighPrecision(NewEngine,
                                                     DictGet(r, "ultra_smooth", FALSE))
                       /\ internal_res' = InternalRes(winRect, r)
                       /\ display_dim' = IF r.scale = "Fullscreen" THEN Screen
                                         ELSE DisplayDim(winRect, ScalePercent(r.scale))
                       /\ last_rect' = winRect
                       /\ running' = TRUE
                       /\ session' = session + 1
                       /\ lastShown' = 0
                       /\ pcMain' = "clear_cap"
    /\ UNCHANGED <<queues, workers, mainFrame, t_rect, frame_count, envVars,
                   nextId, pseqCtr>>

\* while not q.empty(): for the three queues in turn
ClearCheck ==
    /\ pcMain \in {"clear_cap", "clear_proc", "clear_disp"}
    /\ pcMain' =
         IF pcMain = "clear_cap"
         THEN (IF QEmpty(capture_queue) THEN "clear_proc" ELSE "clear_cap_get")
         ELSE IF pcMain = "clear_proc"
         THEN (IF QEmpty(process_queue) THEN "clear_disp" ELSE "clear_proc_get")
         ELSE (IF QEmpty(display_queue) THEN "start" ELSE "clear_disp_get")
    /\ UNCHANGED <<running, queues, config, engine, workers, mainFrame, t_rect,
                   frame_count, last_rect, session, envVars, history>>

\* q.get() of the clearing loops
ClearGet ==
    /\ \/ /\ pcMain = "clear_cap_get" /\ CanGet(capture_queue)
          /\ capture_queue' = QGet(capture_queue)
          /\ pcMain' = "clear_cap"
          /\ UNCHANGED <<process_queue, display_queue>>
       \/ /\ pcMain = "clear_proc_get" /\ CanGet(process_queue)
          /\ process_queue' = QGet(process_queue)
          /\ pcMain' = "clear_proc"
          /\ UNCHANGED <<capture_queue, display_queue>>
       \/ /\ pcMain = "clear_disp_get" /\ CanGet(display_queue)
          /\ display_queue' = QGet(display_queue)
          /\ pcMain' = "clear_disp"
          /\ UNCHANGED <<capture_queue, process_queue>>
    /\ UNCHANGED <<running, config, engine, workers, mainFrame, t_rect,
                   frame_count, last_rect, session, envVars, history>>

\* t_cap.start(); t_proc.start(); t_post.start();
\* last_display_time = time.perf_counter()
StartThreads ==
    /\ pcMain = "start"
    /\ cap' = [cap EXCEPT ![session] = [CapIdle EXCEPT !.pc = "loop"]]
    /\ proc' = [proc EXCEPT ![session] = [ProcIdle EXCEPT !.pc = "loop"]]
    /\ post' = [post EXCEPT ![session] = [PostIdle EXCEPT !.pc = "loop"]]
    /\ due' = FALSE
    /\ pcMain' = "top"
    /\ UNCHANGED <<running, queues, config, engine, mainFrame, t_rect,
                   frame_count, last_rect, session, winRect, events, limits, px, fl,
                   history>>

\* if self.display_queue.qsize() < 2 and self.frame_count > 0: continue
\* the test with the bound off by one: qsize() < 1
BufferedOne == ~(Len(display_queue) < MinBuffered - 1 /\ frame_count > 0)

Buffered == ~(Len(display_queue) < MinBuffered /\ frame_count > 0)

\* the pacing test without its comparison
PacedAlways == TRUE

\* now = time.perf_counter(); a pass goes on to the buffer check unless
\* now - last_display_time < frame_interval
Paced == due

\* the head of a pass of the presentation loop: while self.running, the
\* stop key, the quit event, the pacing test and the buffer check (a pass
\* that only waits changes nothing)
MainTop ==
    /\ pcMain = "top"
    /\ \/ /\ ~running
          /\ pcMain' = "finally"
          /\ UNCHANGED <<running, events>>
       \/ \* F11: self.running = False; break
          /\ running
          /\ Allowed("stop")
          /\ running' = FALSE
          /\ events' = events + 1
          /\ pcMain' = "finally"
       \/ \* pygame.QUIT: self.running = False, and the pass goes on
          /\ running
          /\ Allowed("stop")
          /\ running' = FALSE
          /\ events' = events + 1
          /\ pcMain' = IF Paced /\ Buffered THEN "chk" ELSE "top"
       \/ /\ running
          /\ Paced /\ Buffered
          /\ pcMain' = "chk"
          /\ UNCHANGED <<running, events>>
    /\ UNCHANGED <<queues, config, engine, workers, mainFrame, t_rect,
                   frame_count, last_rect, session, winRect, due, limits, px, fl,
                   history>>

\* if not self.display_queue.empty(): ... else: sleep
MainCheck ==
    /\ pcMain = "chk"
    /\ pcMain' = IF ~QEmpty(display_queue) THEN "get" ELSE "top"
    /\ UNCHANGED <<running, queues, config, engine, workers, mainFrame, t_rect,
                   frame_count, last_rect, session, envVars, history>>

\* frame = self.display_queue.get(); last_display_time = now;
\* t_rect = get_window_rect(...); if self.last_rect != t_rect:
MainGet ==
    /\ pcMain = "get"
    /\ CanGet(display_queue)
    /\ display_queue' = QGet(display_queue)
    /\ mainFrame' = Head(display_queue)
    /\ due' = FALSE
    /\ \/ \* get_window_rect raises: except: pass
          /\ pcMain' = "blit"
          /\ UNCHANGED t_rect
       \/ /\ t_rect' = winRect
          /\ pcMain' = IF last_rect # winRect THEN "sync_res" ELSE "blit"
    /\ UNCHANGED <<running, capture_queue, process_queue, config, engine,
                   workers, frame_count, last_rect, session, winRect, events,
                   limits, px, fl, history>>

\* window sync: self.internal_res = ...
MainSyncRes ==
    /\ pcMain = "sync_res"
    /\ internal_res' = InternalRes(t_rect, target_window)
    /\ pcMain' = "sync_dim"
    /\ UNCHANGED <<running, queues, target_window, scale_factor, upscale_algo,
                   sharpness, display_dim, fsr_mode, ai_mode, ai_upscaler,
                   fg_enabled, engine, workers, mainFrame, t_rect, frame_count,
                   last_rect, session, envVars, history>>

\* window sync, continued: self.display_dim (unless fullscreen), self.last_rect
MainSyncDim ==
    /\ pcMain = "sync_dim"
    /\ display_dim' = IF scale_factor # Fullscreen
                      THEN DisplayDim(t_rect, scale_factor) ELSE display_dim
    /\ last_rect' = t_rect
    /\ pcMain' = "blit"
    /\ UNCHANGED <<running, queues, target_window, scale_factor, upscale_algo,
                   sharpness, internal_res, fsr_mode, ai_mode, ai_upscaler,
                   fg_enabled, engine, workers, mainFrame, t_rect, frame_count,
                   session, envVars, history>>

\* pygame.image.frombuffer(frame.tobytes(), self.display_dim, 'RGB') raises
\* ValueError unless the buffer has display_dim[0] * display_dim[1] pixels
BufferFits(f, dim) == f.w * f.h = dim[1] * dim[2]

\* the hand-over to the presentation sink, the F9 toggle, the flip and the
\* frame counter
MainBlit ==
    /\ pcMain = "blit"
    /\ lastShown' = mainFrame.pseq
    /\ IF BufferFits(mainFrame, display_dim)
       THEN /\ pcMain' = "top"
            /\ frame_count' = frame_count + 1
            /\ \/ \* F9: self.fsr_mode = not self.fsr_mode
                  /\ Allowed("toggle")
                  /\ fsr_mode' = ~fsr_mode
                  /\ events' = events + 1
               \/ UNCHANGED <<fsr_mode, events>>
       ELSE /\ pcMain' = "raise"
            /\ UNCHANGED <<frame_count, fsr_mode, events>>
    /\ UNCHANGED <<running, queues, target_window, scale_factor, upscale_algo,
                   sharpness, internal_res, display_dim, ai_mode, ai_upscaler,
                   fg_enabled, engine, workers, mainFrame, t_rect, last_rect,
                   session, winRect, due, limits, px, fl, nextId, pseqCtr>>

\* finally: self.running = False; then run returns True and the script
\* calls run again, or the exception of the hand-over ends the script
MainFinally ==
    /\ pcMain \in {"finally", "raise"}
    /\ running' = FALSE
    /\ pcMain' = IF pcMain = "raise" THEN "exit" ELSE "select"
    /\ UNCHANGED <<queues, config, engine, workers, mainFrame, t_rect,
                   frame_count, last_rect, session, envVars, history>>

\* the user resizes the target window
WindowResize ==
    /\ Alive /\ Allowed("resize")
    /\ winRect' \in limits.rects \ {winRect}
    /\ events' = events + 1
    /\ UNCHANGED <<running, queues, config, engine, workers, mainVars, due,
                   limits, px, fl, history>>

\* a frame interval elapses: now - last_display_time >= frame_interval
Tick ==
    /\ Alive /\ Allowed("tick")
    /\ ~due
    /\ due' = TRUE
    /\ events' = events + 1
    /\ UNCHANGED <<running, queues, config, engine, workers, mainVars, winRect,
                   limits, px, fl, history>>

CaptureWorker == \E s \in Sessions : CapIter(s) \/ CapEvict(s) \/ CapPut(s)
ProcessingWorker ==
    \E s \in Sessions : \/ ProcPoll(s) \/ ProcGet(s) \/ ProcResize(s)
                        \/ ProcPutInter(s) \/ ProcPutCur(s)
PostProcessingWorker ==
    \E s \in Sessions : \/ PostPoll(s) \/ PostGet(s) \/ PostResize(s)
                        \/ PostEvict(s) \/ PostPut(s)
MainThread ==
    \/ Select \/ ClearCheck \/ ClearGet \/ StartThreads \/ MainTop \/ MainCheck
    \/ MainGet \/ MainSyncRes \/ MainSyncDim \/ MainBlit \/ MainFinally

(***************************************************************************)
(* A session in its steady state.  The display queue takes twenty frames,  *)
(* more than a run from the constructor produces within the bounds on its  *)
(* events.  Steady is the state of the first session (plain                *)
(* resampling, scale 1.0) after SteadyCaptured frames have gone through    *)
(* the three workers while no frame interval has elapsed: the display      *)
(* queue is one frame short of its capacity.                               *)
(***************************************************************************)
SteadyCaptured == (DisplayQueueMax + 1) \div 2
SteadyRecord ==
    [hwnd |-> 1, title |-> "game", mode |-> "bitblt", fps |-> 60,
     scale |-> "1.0", algo |-> "Bilinear", sharpness |-> 0,
     fg_enabled |-> TRUE]
SteadyRect == <<0, 0, 640, 480>>
\* the k-th captured frame: consecutive frames differ
SteadyFrame(k) ==
    MkFrame(k, 1, RectW(SteadyRect), RectH(SteadyRect),
            IF k % 2 = 1 THEN 0 ELSE 255, {})
\* the puts of the processing worker: frame 1, then for each further frame
\* the interpolated frame and the frame
SteadyQueue ==
    [i \in 1..(2 * SteadyCaptured - 1) |->
        [(IF i % 2 = 1 THEN SteadyFrame((i + 1) \div 2)
          ELSE Blended(SteadyFrame(i \div 2), SteadyFrame(i \div 2 + 1)))
         EXCEPT !.pseq = i]]

Steady ==
    LET newest == SteadyFrame(SteadyCaptured)
    IN  /\ running = TRUE
        /\ capture_queue = <<>> /\ process_queue = <<>>
        /\ display_queue = SteadyQueue
        /\ frame_count = 0
        /\ last_rect = SteadyRect
        /\ target_window = SteadyRecord
        /\ scale_factor = ScalePercent(SteadyRecord.scale)
        /\ upscale_algo = AlgoOf(SteadyRecord.algo, "INTER_LINEAR")
        /\ sharpness = SteadyRecord.sharpness * 2
        /\ internal_res = InternalRes(SteadyRect, SteadyRecord)
        /\ display_dim = DisplayDim(SteadyRect, ScalePercent(SteadyRecord.scale))
        /\ fsr_mode = FALSE /\ ai_mode = FALSE
        /\ ai_upscaler = "None"
        /\ fg_enabled = TRUE
        /\ engine = [NewEngine EXCEPT !.last_h = newest.h, !.last_w = newest.w]
        /\ cap = [s \in Sessions |->
                    IF s = 1 THEN [pc |-> "loop", last_frame |-> newest,
                                   frame |-> newest]
                    ELSE CapIdle]
        /\ proc = [s \in Sessions |->
                     IF s = 1
                     THEN [pc |-> "loop", last_frame |-> newest,
                           current_frame |-> newest,
                           inter_frame |-> Blended(SteadyFrame(SteadyCaptured - 1),
                                                   newest),
                           taken |-> SteadyCaptured,
                           pushed |-> 2 * SteadyCaptured - 1]
                     ELSE ProcIdle]
        /\ post = [s \in Sessions |->
                     IF s = 1
                     THEN [pc |-> "loop",
                           frame |-> SteadyQueue[2 * SteadyCaptured - 1],
                           path |-> "plain"]
                     ELSE PostIdle]
        /\ pcMain = "top"
        /\ mainFrame = None
        /\ t_rect = <<>>
        /\ session = 1
        /\ winRect = SteadyRect
        /\ due = FALSE
        /\ nextId = SteadyCaptured + 1 /\ pseqCtr = 2 * SteadyCaptured - 1
        /\ lastShown = 0

\* a run starts from the constructor, or from the steady state of the first
\* session
Init ==
    \/ Constructed
          /\ limits \in {PipeProfile, AIProfile, SharpProfile, FSRProfile,
                        TallProfile, StaleProfile, ReselectProfile}
          /\ px = NoPixel /\ fl = NoFlow
    \/ Steady /\ events = 0 /\ limits \in {SteadyProfile, PressureProfile}
          /\ px = NoPixel /\ fl = NoFlow

\* the runs of one session
InitSession == Init /\ limits.sessions = 1

\* the queues are empty when the first session starts: its clearing loops
\* take no element
MainSession ==
    \/ Select \/ ClearCheck \/ StartThreads \/ MainTop \/ MainCheck
    \/ MainGet \/ MainSyncRes \/ MainSyncDim \/ MainBlit \/ MainFinally

NextSession ==
    \/ CaptureWorker \/ ProcessingWorker \/ PostProcessingWorker \/ MainSession
    \/ WindowResize \/ Tick

Next == CaptureWorker \/ ProcessingWorker \/ PostProcessingWorker \/ MainThread
        \/ WindowResize \/ Tick

(***************************************************************************)
(* The processing worker on any pair of frames.  The capture worker keeps  *)
(* duplicates of its last frame out of the capture queue, but drop-oldest  *)
(* eviction can remove the frames between two equal ones, and the          *)
(* duplicate check and the static check sample different pixels: the       *)
(* worker's last frame and the frame it takes next can be any two images.  *)
(* Here they are drawn from frames of two shapes, with up to three pixels  *)
(* that differ from the background: two on the grid of the static check,   *)
(* one off it.                                                             *)
(***************************************************************************)
EngineShapes == {<<640, 480>>, <<320, 240>>}
EngineSpots == SUBSET {<<0, 0>>, <<100, 200>>, <<50, 50>>}
EngineFrames(i) ==
    {MkFrame(i, 1, sh[1], sh[2], bg, sp) :
        sh \in EngineShapes, bg \in Colours, sp \in EngineSpots}
EngineProfile == [BaseProfile EXCEPT !.kinds = {}]

InitEngine ==
    \E f1 \in EngineFrames(1), f2 \in EngineFrames(2) :
        /\ running = TRUE
        /\ capture_queue = <<f2>>
        /\ process_queue = <<>> /\ display_queue = <<>>
        /\ frame_count = 0
        /\ last_rect = SteadyRect
        /\ target_window = SteadyRecord
        /\ scale_factor = ScalePercent(SteadyRecord.scale)
        /\ upscale_algo = AlgoOf(SteadyRecord.algo, "INTER_LINEAR")
        /\ sharpness = SteadyRecord.sharpness * 2
        /\ internal_res = InternalRes(SteadyRect, SteadyRecord)
        /\ display_dim = DisplayDim(SteadyRect, ScalePercent(SteadyRecord.scale))
        /\ fsr_mode = FALSE /\ ai_mode = FALSE
        /\ ai_upscaler = "None"
        /\ fg_enabled = TRUE
        /\ engine \in {NewEngine,
                        [NewEngine EXCEPT !.last_h = RectH(SteadyRect),
                                          !.last_w = RectW(SteadyRect)]}
        /\ cap = [s \in Sessions |->
                    IF s = 1 THEN [pc |-> "loop", last_frame |-> f2, frame |-> f2]
                    ELSE CapIdle]
        /\ proc = [s \in Sessions |->
                     IF s = 1 THEN [pc |-> "get", last_frame |-> f1,
                                    current_frame |-> f1, inter_frame |-> None,
                                    taken |-> 1, pushed |-> 1]
                     ELSE ProcIdle]
        /\ post = [s \in Sessions |->
                     IF s = 1 THEN [PostIdle EXCEPT !.pc = "loop"] ELSE PostIdle]
        /\ pcMain = "top"
        /\ mainFrame = None
        /\ t_rect = <<>>
        /\ session = 1
        /\ winRect = SteadyRect
        /\ due = FALSE
        /\ events = 0
        /\ limits = EngineProfile
        /\ px = NoPixel /\ fl = NoFlow
        /\ nextId = 3 /\ pseqCtr = 0
        /\ lastShown = 0

\* the frames fit internal_res: the worker never resizes
NextEngine ==
    \E s \in Sessions :
        ProcPoll(s) \/ ProcGet(s) \/ ProcPutInter(s) \/ ProcPutCur(s)

(***************************************************************************)
(* The blend of interpolate on any pixel: the values of the two frames and *)
(* of the two warped frames at the pixel, its flow magnitude, and the      *)
(* largest magnitude elsewhere in the frame (none, or full motion).        *)
(***************************************************************************)
Levels == {0, 1, 128, 255}
Magnitudes == 0..(MaxMag * MagPerPixel)
BlendProfile == [BaseProfile EXCEPT !.kinds = {}]

InitBlend ==
    /\ Constructed
    /\ limits = BlendProfile
    /\ \E f1 \in Levels, f2 \in Levels, i1 \in Levels, i2 \in Levels,
          u \in Magnitudes, o \in {0, MaxMag * MagPerPixel} :
          px = [NoPixel EXCEPT !.frame1 = f1, !.frame2 = f2, !.inter1 = i1,
                               !.inter2 = i2, !.mag = u, !.others = o]
    /\ fl = NoFlow

\* steps 8 and 9 of interpolate at the pixel
BlendPixel ==
    /\ px.mag >= 0 /\ px.final < 0
    /\ px' = BlendOf(px)
    /\ UNCHANGED <<running, queues, config, engine, workers, mainVars,
                   winRect, due, events, limits, fl, history>>

NextBlend == BlendPixel

(***************************************************************************)
(* The capture worker alone (the other workers are slow), on any sequence  *)
(* of captures: images with up to three pixels that differ from the        *)
(* background, one in the window [10:30:2, 10:30:2] of the duplicate       *)
(* check, one on its grid [::60, ::60] and one outside both, images equal  *)
(* to the last one on the sampled positions, and failed captures.          *)
(***************************************************************************)
DedupSpots == SUBSET {<<10, 10>>, <<60, 120>>, <<5, 5>>}
DedupProfile == [BaseProfile EXCEPT !.events = DedupEvents,
                                    !.spots = DedupSpots,
                                    !.kinds = {"frame", "dup"}]

InitCapture ==
    /\ running = TRUE
    /\ capture_queue = <<>> /\ process_queue = <<>> /\ display_queue = <<>>
    /\ frame_count = 0
    /\ last_rect = SteadyRect
    /\ target_window = SteadyRecord
    /\ scale_factor = ScalePercent(SteadyRecord.scale)
    /\ upscale_algo = AlgoOf(SteadyRecord.algo, "INTER_LINEAR")
    /\ sharpness = SteadyRecord.sharpness * 2
    /\ internal_res = InternalRes(SteadyRect, SteadyRecord)
    /\ display_dim = DisplayDim(SteadyRect, ScalePercent(SteadyRecord.scale))
    /\ fsr_mode = FALSE /\ ai_mode = FALSE
    /\ ai_upscaler = "None"
    /\ fg_enabled = TRUE
    /\ engine = NewEngine
    /\ cap = [s \in Sessions |->
                IF s = 1 THEN [CapIdle EXCEPT !.pc = "loop"] ELSE CapIdle]
    /\ proc = [s \in Sessions |->
                 IF s = 1 THEN [ProcIdle EXCEPT !.pc = "loop"] ELSE ProcIdle]
    /\ post = [s \in Sessions |->
                 IF s = 1 THEN [PostIdle EXCEPT !.pc = "loop"] ELSE PostIdle]
    /\ pcMain = "top"
    /\ mainFrame = None
    /\ t_rect = <<>>
    /\ session = 1
    /\ winRect = SteadyRect
    /\ due = FALSE
    /\ events = 0
    /\ limits = DedupProfile
    /\ px = NoPixel /\ fl = NoFlow
    /\ nextId = 1 /\ pseqCtr = 0
    /\ lastShown = 0

NextCapture == \E s \in Sessions : CapIter(s) \/ CapEvict(s) \/ CapPut(s)

(***************************************************************************)
(* A session whose source delivers a few frames and then goes static, with *)
(* time running on: a frame interval elapses again and again, whatever the *)
(* number of frames captured.  Each thread that can take a step eventually *)
(* takes one (the threads are scheduled by the operating system and every  *)
(* waiting pass of a loop sleeps), and the clock advances.                 *)
(***************************************************************************)
\* now - last_display_time reaches frame_interval
Elapse ==
    /\ Alive /\ ~due
    /\ due' = TRUE
    /\ UNCHANGED <<running, queues, config, engine, workers, mainVars, winRect,
                   events, limits, px, fl, history>>

InitDrain ==
    /\ \/ Constructed /\ limits = DrainProfile
       \/ Steady /\ events = 0 /\ limits = DrainSteadyProfile
    /\ px = NoPixel /\ fl = NoFlow

NextDrain ==
    \/ CaptureWorker \/ ProcessingWorker \/ PostProcessingWorker \/ MainSession
    \/ WindowResize \/ Elapse

FairDrain ==
    /\ WF_vars(CaptureWorker) /\ WF_vars(ProcessingWorker)
    /\ WF_vars(PostProcessingWorker) /\ WF_vars(MainSession)
    /\ WF_vars(Elapse)

(***************************************************************************)
(* Steps 4 and 5 of interpolate on any estimate and any pair of reduced    *)
(* images: fields of flow components with uniform static and edge signals, *)
(* and uniform fields with any static and edge signals (a difference at    *)
(* the threshold or above it, an edge or none).  set_high_precision is     *)
(* called before, any number of times.                                     *)
(***************************************************************************)
FlowLevels == {0 - MaxFlow, 0, MaxFlow}
Signals == {[diff |-> StaticThreshold, edge |-> 0],
            [diff |-> StaticThreshold + 1, edge |-> 0],
            [diff |-> StaticThreshold + 1, edge |-> EdgeMax]}

FlowInput(est, sig) ==
    [NoFlow EXCEPT !.pc = "calc", !.est = est,
                   !.diff = [p \in SmallGrid |-> sig[p].diff],
                   !.edges = [p \in SmallGrid |-> sig[p].edge]]

InitFlow ==
    /\ Constructed
    /\ limits = EngineProfile
    /\ px = NoPixel
    /\ \/ \E est \in [SmallGrid -> FlowLevels], sg \in Signals :
             fl = FlowInput(est, [p \in SmallGrid |-> sg])
       \/ \E v \in FlowLevels, sig \in [SmallGrid -> Signals] :
             fl = FlowInput([p \in SmallGrid |-> v], sig)

\* self.engine.set_high_precision(self.ultra_smooth), before the call
SetPrecision ==
    /\ fl.pc = "calc"
    /\ \E enabled \in BOOLEAN : engine' = SetHighPrecision(engine, enabled)
    /\ UNCHANGED <<running, queues, config, workers, mainVars, envVars, history>>

\* flow = cv2.medianBlur(flow, 3)
FlowMedian ==
    /\ fl.pc = "calc"
    /\ fl' = [fl EXCEPT !.pc = "median", !.median = MedianBlur(fl.est),
                        !.hp = engine.high_precision]
    /\ UNCHANGED <<running, queues, config, engine, workers, mainVars,
                   winRect, due, events, limits, px, history>>

\* flow = cv2.GaussianBlur(flow, (3, 3), 0.5), whatever self.high_precision
FlowGaussian ==
    /\ fl.pc = "median"
    /\ fl' = [fl EXCEPT !.pc = "gauss", !.flow = GaussianBlur3(fl.median)]
    /\ UNCHANGED <<running, queues, config, engine, workers, mainVars,
                   winRect, due, events, limits, px, history>>

\* step 5 up to the protection mask
FlowProtect ==
    /\ fl.pc = "gauss"
    /\ fl' = [fl EXCEPT !.pc = "mask", !.mask = ProtectionMask(fl.diff, fl.edges)]
    /\ UNCHANGED <<running, queues, config, engine, workers, mainVars,
                   winRect, due, events, limits, px, history>>

\* flow[..., 0] *= (1.0 - protection_mask), and the same for flow[..., 1]
FlowDampen ==
    /\ fl.pc = "mask"
    /\ fl' = [fl EXCEPT !.pc = "done", !.damp = Dampen(fl.flow, fl.mask)]
    /\ UNCHANGED <<running, queues, config, engine, workers, mainVars,
                   winRect, due, events, limits, px, history>>

NextFlow == SetPrecision \/ FlowMedian \/ FlowGaussian \/ FlowProtect \/ FlowDampen

\* the program
Spec == Init /\ [][Next]_vars
\* the first session of the program
SpecSession == InitSession /\ [][NextSession]_vars
\* the processing worker on any pair of frames
SpecEngine == InitEngine /\ [][NextEngine]_vars
\* the capture worker on any sequence of captures
SpecCapture == InitCapture /\ [][NextCapture]_vars
\* the blend of interpolate on any pixel
SpecBlend == InitBlend /\ [][NextBlend]_vars
\* steps 4 and 5 of interpolate on any flow field
SpecFlow == InitFlow /\ [][NextFlow]_vars
\* a session whose source goes static, under fair scheduling
SpecDrain == InitDrain /\ [][NextDrain]_vars /\ FairDrain

(***************************************************************************)
(* Properties                                                              *)
(***************************************************************************)
\* C1: after every step of every interleaving of the three workers and the
\* presentation loop, each queue holds at most as many frames as its
\* capacity (3, 3 and 20).
QueueBound ==
    /\ Len(capture_queue) <= CaptureQueueMax
    /\ Len(process_queue) <= ProcessQueueMax
    /\ Len(display_queue) <= DisplayQueueMax

\* the processing worker has a frame to put while the process queue is at
\* its capacity
QueueBoundWitness ==
    \E s \in Sessions :
        /\ proc[s].pc \in {"put_inter", "put_cur"}
        /\ Len(process_queue) = ProcessQueueMax

\* C2: no push of a stage ever waits: whenever a worker is at the put of
\* its push (capture queue, process queue for the interpolated and for the
\* real frame, display queue), the put completes at once.
NoPushBlocks ==
    \A s \in Sessions :
        /\ cap[s].pc = "put" => CanPut(capture_queue, CaptureQueueMax)
        /\ proc[s].pc \in {"put_inter", "put_cur"}
              => CanPut(process_queue, ProcessQueueMax)
        /\ post[s].pc = "put" => CanPut(display_queue, DisplayQueueMax)

\* C3: drop-oldest ordering of the push of the capture worker and of the
\* post-processing worker: as long as the consumer has taken nothing, the
\* queue holds, between two pushes, the last N frames pushed (N its
\* capacity; all of them if fewer were pushed), in push order.  The frames
\* pushed to the capture queue are the captures 1, 2, ..., those pushed to
\* the display queue the process-queue puts 1, 2, ...
LastPushed(q, count, maxsize, tag(_)) ==
    /\ Len(q) = Min(count, maxsize)
    /\ \A i \in 1..Len(q) : tag(q[i]) = count - Len(q) + i
FrameId(f) == f.id
FramePseq(f) == f.pseq
DropOldestOrder ==
    \A s \in Sessions :
        /\ (cap[s].pc = "loop" /\ proc[s].current_frame = None)
              => LastPushed(capture_queue, nextId - 1, CaptureQueueMax, FrameId)
        /\ (post[s].pc = "loop" /\ mainFrame = None)
              => LastPushed(display_queue, pseqCtr - Len(process_queue),
                            DisplayQueueMax, FramePseq)

\* [1, 2, 3, 4] pushed to the capture queue, nothing taken: it holds [2, 3, 4]
DropOldestWitness ==
    \E s \in Sessions :
        /\ cap[s].pc = "loop" /\ proc[s].current_frame = None
        /\ nextId - 1 = CaptureQueueMax + 1
        /\ Len(capture_queue) = CaptureQueueMax
        /\ capture_queue[1].id = 2
        /\ capture_queue[CaptureQueueMax].id = CaptureQueueMax + 1


\* C4: cooperative shutdown, in its finite form: once the running flag is
\* cleared, a worker that waits in a queue operation still has the worker
\* that can complete the operation (the consumer of a full queue, the
\* producer of an empty one) in its loop.  A worker that waits while that
\* worker has terminated waits forever and never terminates.
ProcWaitsToPut(s) ==
    proc[s].pc \in {"put_inter", "put_cur"} /\ ~CanPut(process_queue, ProcessQueueMax)
ProcWaitsToGet(s) == proc[s].pc = "get" /\ ~CanGet(capture_queue)
PostWaitsToPut(s) ==
    post[s].pc = "put" /\ ~CanPut(display_queue, DisplayQueueMax)
PostWaitsToGet(s) == post[s].pc = "get" /\ ~CanGet(process_queue)
CapWaitsToPut(s) ==
    cap[s].pc = "put" /\ ~CanPut(capture_queue, CaptureQueueMax)
Ended(pc) == pc \in {"done", "dead"}
ShutdownCompletes ==
    \A s \in Sessions :
        ~running =>
            /\ CapWaitsToPut(s) => ~Ended(proc[s].pc)
            /\ ProcWaitsToGet(s) => ~Ended(cap[s].pc)
            /\ ProcWaitsToPut(s) => ~Ended(post[s].pc)
            /\ PostWaitsToGet(s) => ~Ended(proc[s].pc)
            /\ PostWaitsToPut(s) => pcMain \notin {"select", "exit"}

\* C5: every frame handed to the presentation sink has the width and the
\* height of display_dim as it is at the hand-over, also when the target
\* window was resized during the session.
HandOverFits == pcMain = "blit" => FitsDisplay(mainFrame, display_dim)

\* C6: a worker started in an earlier session never begins a loop iteration
\* in a later session: from the head of its loop it only stays there or
\* terminates.
NoStaleIteration ==
    [][\A s \in Sessions :
         s < session =>
            /\ cap[s].pc = "loop" => cap'[s].pc \in {"loop", "done"}
            /\ proc[s].pc = "loop" => proc'[s].pc \in {"loop", "done"}
            /\ post[s].pc = "loop" => post'[s].pc \in {"loop", "done"}]_vars

\* C7: no frame state is carried into the next session: at the start of
\* the threads of a session the three queues are empty, and while the
\* session runs no frame captured in, or produced from a frame of, an
\* earlier session is in a queue or at the hand-over.
InSession ==
    pcMain \in {"top", "chk", "get", "sync_res", "sync_dim", "blit"}
Fresh(f) == f.sess = session
NoStaleFrames ==
    /\ pcMain = "start" =>
          capture_queue = <<>> /\ process_queue = <<>> /\ display_queue = <<>>
    /\ InSession =>
          /\ \A i \in 1..Len(capture_queue) : Fresh(capture_queue[i])
          /\ \A i \in 1..Len(process_queue) : Fresh(process_queue[i])
          /\ \A i \in 1..Len(display_queue) : Fresh(display_queue[i])
          /\ pcMain = "blit" => Fresh(mainFrame)

\* C8: a failure of an external dependency ends the session: the session
\* is never running with a worker dead of an exception, or with a
\* post-processing worker that went past the AI upscaler without a model
\* session.
DependencyFatal ==
    \A s \in Sessions :
        running => /\ ~(cap[s].pc = "dead" \/ proc[s].pc = "dead"
                        \/ post[s].pc = "dead")
                   /\ post[s].path # "ai_bypass"

\* C9: within one session the frames reach the presentation loop in the
\* order in which the processing worker put them: along the display queue
\* the frames of the session follow the order of the process-queue puts,
\* and the frame at the hand-over comes after the one handed over before.
InProductionOrder ==
    /\ \A i, j \in 1..Len(display_queue) :
          (i < j /\ Fresh(display_queue[i]) /\ Fresh(display_queue[j]))
             => display_queue[i].pseq < display_queue[j].pseq
    /\ (pcMain = "blit" /\ Fresh(mainFrame)) => mainFrame.pseq > lastShown


\* C10: interpolate short-circuits on a static pair: for two frames of
\* equal shape that agree at every position of the sparse grid (every
\* 100th row and column), interpolate(F, F) among them, the result is
\* frame1 itself by the static path (no flow, warp or blend) and the
\* cached maps of the engine are as before; the processing worker then
\* holds frame1 as its interpolated frame.
Grid(n) == {i \in 0..(n - 1) : i % 100 = 0}
GridAgree(f1, f2) ==
    \A r \in Grid(f1.h), c \in Grid(f1.w) : Pixel(f1, r, c) = Pixel(f2, r, c)
StaticShortCircuit ==
    \A s \in Sessions :
        /\ (proc[s].pc = "get" /\ CanGet(capture_queue)
               /\ proc[s].last_frame # None)
             => LET f1 == proc[s].last_frame
                    f2 == Head(capture_queue)
                    r == Interpolate(engine, f1, f2)
                IN  (SameShape(f1, f2) /\ GridAgree(f1, f2))
                       => r.frame = f1 /\ r.path = "static" /\ r.engine = engine
        /\ (proc[s].pc = "put_inter" /\ SameShape(proc[s].last_frame,
                                                   proc[s].current_frame)
               /\ GridAgree(proc[s].last_frame, proc[s].current_frame))
             => proc[s].inter_frame = proc[s].last_frame

\* the worker has interpolated two frames that agree on the grid and
\* differ off it, and holds the first as the interpolated frame
StaticShortCircuitWitness ==
    \E s \in Sessions :
        /\ proc[s].pc = "put_inter"
        /\ SameShape(proc[s].last_frame, proc[s].current_frame)
        /\ GridAgree(proc[s].last_frame, proc[s].current_frame)
        /\ proc[s].last_frame.spots # proc[s].current_frame.spots
        /\ proc[s].inter_frame = proc[s].last_frame

\* C11: interpolate falls back on a shape mismatch: when the processing
\* worker interpolates its last frame A and its current frame B and the
\* two differ in height or width, the call returns B itself, the engine
\* is as before, and the worker goes on to push (it holds B as the
\* interpolated frame, at the put of the interpolated frame).
ShapesDiffer(a, b) == a.h # b.h \/ a.w # b.w
ShapeMismatchFallback ==
    [][\A s \in Sessions :
          (/\ proc[s].pc \in {"get", "resize"}
           /\ proc'[s].pc \notin {"get", "resize"}
           /\ fg_enabled /\ proc[s].last_frame # None
           /\ ShapesDiffer(proc[s].last_frame, proc'[s].current_frame))
            => /\ proc'[s].pc = "put_inter"
               /\ proc'[s].inter_frame = proc'[s].current_frame
               /\ proc'[s].last_frame = proc[s].last_frame
               /\ engine' = engine]_vars

\* the worker has interpolated two frames of different shapes and holds
\* the second as the interpolated frame
ShapeMismatchWitness ==
    \E s \in Sessions :
        /\ proc[s].pc = "put_inter"
        /\ ShapesDiffer(proc[s].last_frame, proc[s].current_frame)
        /\ proc[s].inter_frame = proc[s].current_frame

\* C12 as worded: at every pixel of the frame returned by the blend, the
\* weight of the cross-fade is 0.4 * min(magnitude / 30, 1), a
\* non-decreasing function of the magnitude at the pixel that never
\* exceeds 0.4.
WeightByMagnitude ==
    px.final >= 0
      => /\ px.value = px.combined * (WeightDen - px.weight)
                         + px.cross_fade * px.weight
         /\ px.weight = CrossFadeTenths * Min(px.mag, MaskDen)
         /\ 10 * px.weight <= CrossFadeTenths * WeightDen

\* C12, amended: the weight of the cross-fade at a pixel is
\* 0.4 * min(magnitude / 30, 1) in a frame whose largest normalised
\* magnitude exceeds 0.05 and 0 at every pixel of any other frame; it
\* never exceeds 0.4, no pixel of the same frame with a smaller magnitude
\* has a larger weight, and the value computed is
\* combined * (1 - weight) + cross_fade * weight.
WeightCapped ==
    px.final >= 0
      => LET umax == Max(px.mag, px.others)
         IN  /\ px.value = px.combined * (WeightDen - px.weight)
                             + px.cross_fade * px.weight
             /\ px.weight =
                  IF 100 * Min(umax, MaskDen) > MaskThresholdPct * MaskDen
                  THEN CrossFadeTenths * Min(px.mag, MaskDen) ELSE 0
             /\ 0 <= px.weight
             /\ 10 * px.weight <= CrossFadeTenths * WeightDen
             /\ \A v \in 0..px.mag : CrossFadeWeight(v, umax) <= px.weight

\* a pixel whose magnitude is beyond 30 pixels has been blended with the
\* full weight 0.4 of a cross-fade that differs from the warp
WeightCappedWitness ==
    /\ px.final >= 0
    /\ px.mag > MaskDen
    /\ 10 * px.weight = CrossFadeTenths * WeightDen
    /\ px.combined # px.cross_fade

\* C17: the blend stays in the 8-bit range: for the 8-bit values of the
\* warp and of the cross-fade at a pixel and every weight the mask gives,
\* the value computed lies in 0..255 (between the two values blended), so
\* the conversion to 8 bits drops the fraction and never wraps around.
BlendInRange ==
    px.final >= 0
      => /\ 0 <= px.value
         /\ px.value <= 255 * WeightDen
         /\ Min(px.combined, px.cross_fade) * WeightDen <= px.value
         /\ px.value <= Max(px.combined, px.cross_fade) * WeightDen
         /\ px.final = px.value \div WeightDen

\* a pixel at the top of the range has been cross-faded with a weight
BlendInRangeWitness ==
    /\ px.final = 255
    /\ px.weight > 0
    /\ px.combined = 255 /\ px.cross_fade = 255

\* C13: no torn configuration reads: between the reads of the
\* configuration that one iteration of a worker makes (the processing
\* worker compares the frame with internal_res and then resizes to
\* internal_res; the post-processing worker compares the frame with
\* display_dim and then resizes to display_dim), the presentation loop
\* writes none of the fields read, so the iteration acts on the values of
\* one update.
NoTornConfig ==
    [][\A s \in Sessions :
          /\ proc[s].pc = "resize" => internal_res' = internal_res
          /\ post[s].pc = "resize" => display_dim' = display_dim]_vars

\* C14: the minimum-buffer rule: once a frame has been presented
\* (frame_count > 0), a pass of the presentation loop goes beyond the
\* buffer check, to the test for a frame and to the dequeue, only with at
\* least two frames in the display queue, and they are still there when it
\* dequeues.  Only with frame_count = 0 does it dequeue from a queue of one.
MinBufferRule ==
    (pcMain \in {"chk", "get"} /\ frame_count > 0)
        => Len(display_queue) >= MinBuffered

\* after a presentation the loop is about to dequeue the next frame
MinBufferRuleWitness ==
    /\ pcMain = "get"
    /\ frame_count > 0
    /\ lastShown > 0
    /\ Len(display_queue) >= MinBuffered

\* C16: the fallback of an unavailable upscaler: with AI post-processing
\* selected and no model session, the frame the post-processing worker
\* holds for the push is the frame the plain path makes of its input under
\* the same configuration: resized to display_dim with upscale_algo when
\* it does not fit, then sharpened by the unsharp mask when sharpness > 0.
PlainFrame(f, dim, algo, sh) ==
    Unsharp(IF FitsDisplay(f, dim) THEN f ELSE ResizeWith(f, dim, algo), sh)
BypassIsPlain ==
    [][\A s \in Sessions :
          /\ (/\ post[s].pc = "get"
              /\ post'[s].pc \in {"put", "evict"}
              /\ post'[s].path = "ai_bypass")
               => post'[s].frame = PlainFrame(Head(process_queue), display_dim,
                                              upscale_algo, sharpness)
          /\ (/\ post[s].pc = "resize"
              /\ post'[s].pc \in {"put", "evict"}
              /\ post[s].path = "ai_bypass")
               => post'[s].frame = PlainFrame(post[s].frame, display_dim,
                                              upscale_algo, sharpness)]_vars

\* C18: frame doubling: the processing worker pushes its first frame
\* alone; with frame generation enabled it pushes, for every later frame
\* C_k, interpolate(C_(k-1), C_k) and then C_k (the frames as they are
\* after the internal downscaling), and with frame generation disabled
\* C_k alone: between two iterations a worker that has taken n > 0 frames
\* has pushed 2n - 1 frames (n when disabled), and holds the last frame
\* pushed as its last frame.
FrameDoubling ==
    \A s \in Sessions :
        LET w == proc[s]
            perFrame == IF fg_enabled THEN 2 ELSE 1
        IN  /\ w.pc \in {"loop", "get", "done"}
              => /\ w.pushed = IF w.taken = 0 THEN 0
                               ELSE perFrame * (w.taken - 1) + 1
                 /\ w.taken > 0 => w.last_frame = w.current_frame
            /\ w.pc = "put_inter"
              => /\ fg_enabled /\ w.taken > 1
                 /\ w.last_frame # None
                 /\ w.inter_frame =
                      Interpolate(engine, w.last_frame, w.current_frame).frame
                 /\ w.pushed = 2 * (w.taken - 1) - 1
            /\ w.pc = "put_cur"
              => /\ w.taken > 0
                 /\ w.pushed = IF w.taken = 1 THEN 0
                               ELSE perFrame * (w.taken - 1)
                 /\ w.taken = 1 <=> w.last_frame = None

\* a worker has taken three frames and pushed five
FrameDoublingWitness ==
    \E s \in Sessions :
        /\ proc[s].pc = "loop"
        /\ proc[s].taken = 3 /\ proc[s].pushed = 5
        /\ Len(process_queue) > 0
        /\ process_queue[Len(process_queue)].id = proc[s].last_frame.id
        /\ process_queue[Len(process_queue)].kind = "real"

\* C19: pairing under backpressure: with frame generation on, the
\* processing worker of a session pushes its first frame as number 1 and
\* then pairs: the interpolated frame as number 2j, its real frame as
\* number 2j + 1.  The presentation loop takes a real frame of a pair only
\* right after the interpolated frame of that pair, and after an
\* interpolated frame it takes the real frame of the same pair: no
\* eviction leaves one member of a pair to be presented without the other.
Taken == pcMain \in {"sync_res", "sync_dim", "blit"}
PairsStayTogether ==
    (Taken /\ fg_enabled)
      => /\ (mainFrame.pseq > 1 /\ mainFrame.pseq % 2 = 1)
              => lastShown = mainFrame.pseq - 1
         /\ (lastShown > 0 /\ lastShown % 2 = 0)
              => mainFrame.pseq = lastShown + 1

\* C20: the dedup filter of the capture worker.  The sampled positions are
\* the rows and columns 10, 12, .., 28 and the rows and columns that are
\* multiples of 60.  (1) The worker goes on to enqueue a captured frame
\* only if there is no last frame or the frame differs from it in shape or
\* at a sampled position; (2) a pass that does not go on (a failed capture
\* or a duplicate) leaves the capture queue and last_frame as they are,
\* and its frame, if any, equals last_frame at every sampled position;
\* (3) between passes last_frame is the frame enqueued last (None before
\* the first), and frames enqueued one after the other differ at a sampled
\* position.
SampleWindow == {10 + 2 * i : i \in 0..9}
SampleGrid(n) == {60 * i : i \in 0..((n - 1) \div 60)}
DiffersSampled(a, b) ==
    \/ a.h # b.h \/ a.w # b.w
    \/ \E r \in SampleWindow, c \in SampleWindow :
          r < a.h /\ c < a.w /\ Pixel(a, r, c) # Pixel(b, r, c)
    \/ \E r \in SampleGrid(a.h), c \in SampleGrid(a.w) :
          Pixel(a, r, c) # Pixel(b, r, c)
DedupFilter ==
    [][\A s \in Sessions :
          LET w == cap[s]
              v == cap'[s]
              q == capture_queue'
          IN  /\ (w.pc = "loop" /\ v.pc \in {"evict", "put"})
                   => /\ v.frame # None
                      /\ v.last_frame = w.last_frame
                      /\ w.last_frame # None
                           => DiffersSampled(v.frame, w.last_frame)
              /\ (w.pc = "loop" /\ v.pc = "loop" /\ v # w)
                   => /\ capture_queue' = capture_queue
                      /\ v.last_frame = w.last_frame
                      /\ v.frame = None
                           \/ (/\ w.last_frame # None
                               /\ ~DiffersSampled(v.frame, w.last_frame))
              /\ v.pc = "loop"
                   => /\ v.last_frame = IF q = <<>> THEN None ELSE q[Len(q)]
                      /\ \A i \in 1..(Len(q) - 1) :
                            DiffersSampled(q[i], q[i + 1])]_vars

\* the worker has captured a frame that differs from the frame enqueued
\* last, but at no sampled position, and has not enqueued it
DedupFilterWitness ==
    \E s \in Sessions :
        /\ cap[s].pc = "loop"
        /\ capture_queue # <<>>
        /\ cap[s].last_frame = capture_queue[Len(capture_queue)]
        /\ cap[s].frame # None
        /\ cap[s].frame.spots # cap[s].last_frame.spots
        /\ ~DiffersSampled(cap[s].frame, cap[s].last_frame)

\* C21: no consumer calls a blocking get on an empty queue: whenever the
\* processing worker is at capture_queue.get(), the post-processing worker
\* at process_queue.get() or the presentation loop at display_queue.get(),
\* the queue holds a frame.
NoGetOnEmpty ==
    /\ \A s \in Sessions :
          /\ proc[s].pc = "get" => ~QEmpty(capture_queue)
          /\ post[s].pc = "get" => ~QEmpty(process_queue)
    /\ pcMain = "get" => ~QEmpty(display_queue)

\* C22: when the source stops delivering frames while the session keeps
\* running, the display queue eventually becomes empty and stays empty: no
\* frame stays buffered for ever.
DisplayQueueDrains == <>[](running => QEmpty(display_queue))

\* C23: what select_game leaves in fsr_mode, ai_mode, ai_upscaler and
\* upscale_algo depends only on the algorithm of the current selection, as
\* in the first session: fsr_mode exactly for an FSR algorithm, ai_mode and
\* an upscaler object exactly for an AI algorithm, the resample algorithm
\* selected or the default.
Configures == pcMain = "select" /\ pcMain' = "clear_cap"
ConfigOfSelection ==
    [][Configures =>
         LET algo == target_window'.algo
         IN  /\ fsr_mode' = SetsFSR(algo)
             /\ ai_mode' = SetsAI(algo)
             /\ (ai_upscaler' # "None") = SetsAI(algo)
             /\ upscale_algo' = AlgoOf(algo, "INTER_LINEAR")]_vars

\* C24: per frame the post-processing worker takes exactly one of three
\* paths: the upscaler when ai_mode is set and an upscaler object exists,
\* else the FSR-style path when fsr_mode is set, else plain resampling.  The
\* frame is resized only when it differs from display_dim, with the
\* resampling of its path; the unsharp mask is applied only on the plain
\* path and only when sharpness > 0; on the plain and FSR paths a frame
\* that has the display dimensions is pushed unchanged when sharpness is 0.
External == ai_mode /\ ai_upscaler # "None"
PathEffects(f, path) ==
    /\ path \in {"ai", "ai_bypass"}
         => f.fx.sharpen = "none" /\ f.fx.resample \in {"none", "INTER_LINEAR"}
    /\ path = "fsr"
         => /\ ~f.fx.ai /\ f.fx.sharpen \in {"none", "cas"}
            /\ f.fx.resample \in {"none", "INTER_LANCZOS4"}
    /\ path = "plain"
         => /\ ~f.fx.ai /\ f.fx.sharpen \in {"none", "usm"}
            /\ f.fx.resample \in {"none", upscale_algo}
    /\ f.fx.sharpen = "usm" => path = "plain" /\ sharpness > 0
Pushes(s) == post'[s].pc \in {"put", "evict"}
PostPaths ==
    [][\A s \in Sessions :
          /\ (post[s].pc = "get" /\ post'[s].pc # "get") =>
                LET f == Head(process_queue)
                    g == post'[s].frame
                    path == post'[s].path
                IN  /\ (path \in {"ai", "ai_bypass"}) = External
                    /\ (path = "fsr") = (~External /\ fsr_mode)
                    /\ (path = "plain") = (~External /\ ~fsr_mode)
                    /\ g.fx.ai => External
                    /\ post'[s].pc = "resize" => ~FitsDisplay(g, display_dim)
                    /\ Pushes(s) =>
                          /\ FitsDisplay(g, display_dim)
                          /\ g.fx.resample = "none"
                          /\ PathEffects(g, path)
                          /\ (path \in {"plain", "fsr"} /\ sharpness = 0) => g = f
          /\ (post[s].pc = "resize" /\ Pushes(s)) =>
                /\ post'[s].frame.fx.resample # "none"
                /\ PathEffects(post'[s].frame, post[s].path)]_vars
\* the worker has taken the FSR-style path on a frame that has the display
\* dimensions, with sharpness 0, and is about to push the frame as it came
PostPathsWitness ==
    \E s \in Sessions :
        /\ post[s].pc \in {"put", "evict"} /\ post[s].path = "fsr"
        /\ sharpness = 0 /\ post[s].frame.fx = NoFx
        /\ FitsDisplay(post[s].frame, display_dim)

\* C25: minimum spacing of presentations: the presentation loop dequeues a
\* frame only in a pass whose timestamp is at least one frame interval
\* after the timestamp of the previous presentation (or after the start of
\* the loop), and the interval starts again with that pass, whatever the
\* number of frames waiting in the display queue.
PresentsFrame == pcMain = "get" /\ pcMain' # "get"
MinSpacing == [][PresentsFrame => due /\ ~due']_vars
\* the loop has presented a frame and has dequeued the next one, with
\* frames still waiting
MinSpacingWitness ==
    /\ frame_count > 0 /\ pcMain = "blit" /\ ~due
    /\ Len(display_queue) >= MinBuffered

\* C26: session setup succeeds for every record the selection dialog
\* returns: when the dialog returns the record of a selected window,
\* select_game reads only keys the record has and run goes on to start the
\* session.
SetupSucceeds ==
    [][(pcMain = "select" /\ target_window' = UIRecord)
          => (RequiredKeys \subseteq DOMAIN target_window' /\ pcMain' = "clear_cap")]_vars

\* C27: every value of the protection mask lies in [0, 1]; the dampened
\* flow at each reduced-resolution position is the stabilised estimate
\* times (1 - mask): 0 where the mask is 1, the estimate where the mask is
\* 0, and never larger than the estimate in absolute value.
AbsVal(x) == IF x < 0 THEN 0 - x ELSE x
MaskDampens ==
    fl.pc = "done" =>
        \A p \in SmallGrid :
            /\ 0 <= fl.mask[p] /\ fl.mask[p] <= ProtDen
            /\ fl.damp[p] = fl.flow[p] * (ProtDen - fl.mask[p])
            /\ fl.mask[p] = ProtDen => fl.damp[p] = 0
            /\ fl.mask[p] = 0 => fl.damp[p] = fl.flow[p] * ProtDen
            /\ AbsVal(fl.damp[p]) <= AbsVal(fl.flow[p]) * ProtDen
\* a call with moving content next to a static region: on a non-zero flow
\* the mask is 1 at one position, 0 at another and in between at a third
MaskDampensWitness ==
    /\ fl.pc = "done"
    /\ \E p, q, r \in SmallGrid :
          /\ fl.mask[p] = ProtDen /\ fl.flow[p] # 0
          /\ fl.mask[q] = 0 /\ fl.damp[q] # 0
          /\ 0 < fl.mask[r] /\ fl.mask[r] < ProtDen /\ fl.damp[r] # 0

\* C28: the stabilisation of the flow depends on the precision profile: the
\* median filter is applied in both profiles, the Gaussian smoothing pass
\* exactly in the high-precision profile, as last set by set_high_precision
\* before the call.
Smoothed == fl.pc \in {"gauss", "mask", "done"}
StabilisedByProfile ==
    Smoothed =>
        /\ fl.median = MedianBlur(fl.est)
        /\ fl.flow = IF fl.hp THEN GaussianBlur3(fl.median)
                     ELSE [p \in SmallGrid |-> FlowDen * fl.median[p]]

\* C29: after select_game and after every update of the presentation loop
\* on a resize of the window, internal_res is at most (max_w, max_h) in
\* width and in height, whatever the size of the window; hence the frames
\* the interpolation engine works on are at most max_w wide and max_h high.
ResolutionCapped ==
    session > 0 =>
        LET max == MaxRes(target_window)
        IN  /\ internal_res[1] <= max[1] /\ internal_res[2] <= max[2]
            /\ engine.last_w <= max[1] /\ engine.last_h <= max[2]

====
